---- MODULE Spec2Model ----
(***************************************************************************)
(* A model of the sudoku constraint-propagation solver: the cell type and  *)
(* the grid (grid.rs), the Normal ruleset (rules.rs), the five techniques  *)
(* and the SolverSet loop (technique.rs) and the puzzle ingestion of       *)
(* main.rs.  The board is the 9x9 board of the source; only the inputs of  *)
(* the operations are bounded.                                             *)
(***************************************************************************)
EXTENDS Integers, Sequences, FiniteSets, TLC

VARIABLES
    cells,       \* SGrid.cells: the 81 cells, indexed row * 9 + col
    before,      \* history: cells as they were when the last operation began
    lastOp,      \* history: the last operation, its arguments and its results
    pc,          \* "build": grid under construction, "solving": inside
                 \* solve_grid's loop, "returned": solve_grid has returned,
                 \* "panicked": an index was out of bounds
    techniques,  \* SolverSet.techniques (names, in order)
    actions,     \* SolverSet.actions
    defers,      \* SolverSet.defers
    tnum,        \* solve_grid's cursor
    result,      \* what solve_grid returned
    start,       \* history: cells as they were when solve_grid was called
    built,       \* history: only set_cell calls have touched the grid so far
    ops          \* history: number of operations applied while building

vars == <<cells, before, lastOp, pc, techniques, actions, defers, tnum,
          result, start, built, ops>>

----------------------------------------------------------------------------
(* Bounds of the model *)

\* operations applied to a grid before solve_grid is called
MaxOps == 3
\* cap of the per-technique counters of one solve_grid run
MaxCount == 50

----------------------------------------------------------------------------
(* grid.rs: SCell *)

Fixed(n) == [fixed |-> TRUE, val |-> n, mask |-> {}]

\* the u16 mask is the set of its set bit positions
Possible(m) == [fixed |-> FALSE, val |-> 0, mask |-> m]

DefaultCell == Possible(1..9)

has(c, val) == IF c.fixed THEN c.val = val ELSE val \in c.mask

\* a remove that reports success and clears nothing
remove_keep(c, val) == [cell |-> c, ok |-> ~c.fixed]

\* the cell after remove(val) and the boolean it returns
remove(c, val) ==
    IF c.fixed THEN [cell |-> c, ok |-> FALSE]
    ELSE IF val \notin c.mask THEN [cell |-> c, ok |-> TRUE]
    ELSE [cell |-> Possible(c.mask \ {val}), ok |-> TRUE]

\* the bits of `other` that remove_all clears
ValBits(other) == IF other.fixed THEN {other.val} ELSE other.mask

\* the cell after remove_all(other) and the boolean it returns
remove_all(c, other) ==
    IF c.fixed THEN [cell |-> c, changed |-> FALSE]
    ELSE LET newf == c.mask \ ValBits(other) IN
         IF c.mask # newf THEN [cell |-> Possible(newf), changed |-> TRUE]
         ELSE [cell |-> c, changed |-> FALSE]

\* CellValues::new: the mask the iterator walks
ValuesMask(c) == IF c.fixed THEN {c.val} ELSE c.mask

\* CellValues::next: the positions 1..10 whose bit is set, ascending
valuesSet(c) == ValuesMask(c) \cap (1..10)

\* CellValues::size_hint at pos = 0, which is what len() returns
valuesLen(c) == Cardinality(ValuesMask(c))

possibilities(c) == IF c.fixed THEN 0 ELSE Cardinality(c.mask)

Min(S) == CHOOSE x \in S : \A y \in S : x <= y

----------------------------------------------------------------------------
(* rules.rs: the box table and the Normal ruleset *)

BOXES ==
    [b \in 0..8 |->
        CASE b = 0 -> << <<0,0>>, <<0,1>>, <<0,2>>, <<1,0>>, <<1,1>>, <<1,2>>, <<2,0>>, <<2,1>>, <<2,2>> >>
          [] b = 1 -> << <<0,3>>, <<0,4>>, <<0,5>>, <<1,3>>, <<1,4>>, <<1,5>>, <<2,3>>, <<2,4>>, <<2,5>> >>
          [] b = 2 -> << <<0,6>>, <<0,7>>, <<0,8>>, <<1,6>>, <<1,7>>, <<1,8>>, <<2,6>>, <<2,7>>, <<2,8>> >>
          [] b = 3 -> << <<3,0>>, <<3,1>>, <<3,2>>, <<4,0>>, <<4,1>>, <<4,2>>, <<5,0>>, <<5,1>>, <<5,2>> >>
          [] b = 4 -> << <<3,3>>, <<3,4>>, <<3,5>>, <<4,3>>, <<4,4>>, <<4,5>>, <<5,3>>, <<5,4>>, <<5,5>> >>
          [] b = 5 -> << <<3,6>>, <<3,7>>, <<3,8>>, <<4,6>>, <<4,7>>, <<4,8>>, <<5,6>>, <<5,7>>, <<5,8>> >>
          [] b = 6 -> << <<6,0>>, <<6,1>>, <<6,2>>, <<7,0>>, <<7,1>>, <<7,2>>, <<8,0>>, <<8,1>>, <<8,2>> >>
          [] b = 7 -> << <<6,3>>, <<6,4>>, <<6,5>>, <<7,3>>, <<7,4>>, <<7,5>>, <<8,3>>, <<8,4>>, <<8,5>> >>
          [] b = 8 -> << <<6,6>>, <<6,7>>, <<6,8>>, <<7,6>>, <<7,7>>, <<7,8>>, <<8,6>>, <<8,7>>, <<8,8>> >>]

\* a box lookup with band and stack exchanged
boxcells_transposed(row, col) == BOXES[(row \div 3) + 3 * (col \div 3)]

\* Normal::boxcells: the box table row of the cell's band and stack
boxcells(row, col) == BOXES[3 * (row \div 3) + (col \div 3)]

\* a ruleset whose cells do not see their row
SeenOf_norow(row, col) ==
    LET colpart == [i \in 1..9 |-> <<i - 1, col>>]
        InCol(p) == p[1] # row
        InBox(p) == p[1] # row /\ p[2] # col
    IN SelectSeq(colpart, InCol) \o SelectSeq(boxcells(row, col), InBox)

\* one entry of Normal.sees, as Normal::new pushes it
SeenOf(row, col) ==
    LET rowpart == [i \in 1..9 |-> <<row, i - 1>>]
        colpart == [i \in 1..9 |-> <<i - 1, col>>]
        InRow(p) == p[2] # col
        InCol(p) == p[1] # row
        InBox(p) == p[1] # row /\ p[2] # col
    IN SelectSeq(rowpart, InRow) \o SelectSeq(colpart, InCol)
         \o SelectSeq(boxcells(row, col), InBox)

\* Normal.sees: the vector Normal::new builds, indexed from 0
NormalSees == [i \in 0..80 |-> SeenOf(i \div 9, i % 9)]

\* Ruleset::sees for Normal: self.sees[(row * 9) + col]
sees(row, col) == NormalSees[(row * 9) + col]

overlapping_houses(house) ==
    CASE house \in 0..2   -> <<18, 19, 20>>
      [] house \in 3..5   -> <<21, 22, 23>>
      [] house \in 6..8   -> <<24, 25, 26>>
      [] house \in 9..11  -> <<18, 21, 24>>
      [] house \in 12..14 -> <<19, 22, 25>>
      [] house \in 15..17 -> <<20, 23, 26>>
      [] house = 18 -> <<0, 1, 2, 9, 10, 11>>
      [] house = 19 -> <<0, 1, 2, 12, 13, 14>>
      [] house = 20 -> <<0, 1, 2, 15, 16, 17>>
      [] house = 21 -> <<3, 4, 5, 9, 10, 11>>
      [] house = 22 -> <<3, 4, 5, 12, 13, 14>>
      [] house = 23 -> <<3, 4, 5, 15, 16, 17>>
      [] house = 24 -> <<6, 7, 8, 9, 10, 11>>
      [] house = 25 -> <<6, 7, 8, 12, 13, 14>>
      [] house = 26 -> <<6, 7, 8, 15, 16, 17>>

----------------------------------------------------------------------------
(* types.rs: SResult; a panic of the process is carried the same way *)

Continue == [kind |-> "Continue", row |-> 0, col |-> 0]
Finished == [kind |-> "Finished", row |-> 0, col |-> 0]
Conflict(row, col) == [kind |-> "Conflict", row |-> row, col |-> col]
Insoluable(row, col) == [kind |-> "Insoluable", row |-> row, col |-> col]
\* no call was made
NoResult == [kind |-> "None", row |-> 0, col |-> 0]
\* an index out of the bounds of the 81 cells (or of the 81 sees entries)
Panic == [kind |-> "Panic", row |-> 0, col |-> 0]

----------------------------------------------------------------------------
(* grid.rs: SGrid *)

NewGrid == [i \in 0..80 |-> DefaultCell]

_pos(row, col) == (row * 9) + col

\* the bounds check of self.cells[..]
InBounds(row, col) == _pos(row, col) <= 80

done(g) == IF \A i \in 0..80 : g[i].fixed THEN Finished ELSE Continue

\* the propagation loop of set_cell over the seen cells: it stops at the
\* first seen cell whose remove fails (the seen cells are pairwise distinct,
\* so each remove acts on the cell as it was before the loop)
Propagate(g, seen, val) ==
    LET PosOf(k) == _pos(seen[k][1], seen[k][2])
        Fail == {k \in 1..Len(seen) :
                    ~g[PosOf(k)].fixed /\ ~remove(g[PosOf(k)], val).ok}
        last == IF Fail = {} THEN Len(seen) ELSE Min(Fail)
        Done == {PosOf(k) : k \in 1..last}
        g2 == [i \in 0..80 |->
                  IF i \in Done /\ ~g[i].fixed THEN remove(g[i], val).cell
                  ELSE g[i]]
    IN IF Fail = {} THEN [cells |-> g2, res |-> done(g2)]
       ELSE [cells |-> g2, res |-> Insoluable(seen[last][1], seen[last][2])]

\* a set_cell that fixes a Possible cell without asking whether it has val
set_cell_unchecked(g, row, col, val) ==
    IF ~InBounds(row, col) THEN [cells |-> g, res |-> Panic]
    ELSE LET c == g[_pos(row, col)] IN
         IF c.fixed
         THEN [cells |-> g,
               res |-> IF c.val = val THEN done(g) ELSE Conflict(row, col)]
         ELSE Propagate([g EXCEPT ![_pos(row, col)] = Fixed(val)],
                        sees(row, col), val)

\* set_cell: the grid after the call and the SResult it returns
set_cell(g, row, col, val) ==
    IF ~InBounds(row, col) THEN [cells |-> g, res |-> Panic]
    ELSE LET c == g[_pos(row, col)] IN
         IF c.fixed
         THEN [cells |-> g,
               res |-> IF c.val = val THEN done(g) ELSE Conflict(row, col)]
         ELSE IF ~has(c, val)
         THEN [cells |-> g, res |-> Conflict(row, col)]
         ELSE Propagate([g EXCEPT ![_pos(row, col)] = Fixed(val)],
                        sees(row, col), val)

row_house(g, row) == [col \in 0..8 |-> g[_pos(row, col)]]

col_house(g, col) == [row \in 0..8 |-> g[_pos(row, col)]]

box_house(g, box) ==
    [n \in 0..8 |-> g[_pos(BOXES[box][n + 1][1], BOXES[box][n + 1][2])]]

house(g, h) ==
    IF h \in 0..8 THEN row_house(g, h)
    ELSE IF h \in 9..17 THEN col_house(g, h - 9)
    ELSE box_house(g, h - 18)

house_cell_to_row_col(h, cell) ==
    IF h \in 0..8 THEN <<h, cell>>
    ELSE IF h \in 9..17 THEN <<cell, h - 8>>
    ELSE BOXES[h - 18][cell + 1]

set_house(g, h, cell, val) ==
    LET rc == house_cell_to_row_col(h, cell) IN set_cell(g, rc[1], rc[2], val)

\* the index house_cell and house_cell_mut address
HousePos(h, cell) ==
    LET rc == house_cell_to_row_col(h, cell) IN _pos(rc[1], rc[2])

\* house_cell / house_cell_mut panic exactly when the index is out of bounds
HouseCellOk(h, cell) == HousePos(h, cell) <= 80

house_cell(g, h, cell) == g[HousePos(h, cell)]

\* SCell::intersect: the cell holding the values both cells can take
intersect(c, other) == Possible(ValuesMask(c) \cap ValuesMask(other))

\* SGrid::alter_house: the grid after the call, whether the cell changed, and
\* whether the index was out of bounds
alter_house(g, h, cell, ncell) ==
    IF ~HouseCellOk(h, cell) THEN [cells |-> g, changed |-> FALSE, panic |-> TRUE]
    ELSE IF house_cell(g, h, cell) # ncell
    THEN [cells |-> [g EXCEPT ![HousePos(h, cell)] = ncell],
          changed |-> TRUE, panic |-> FALSE]
    ELSE [cells |-> g, changed |-> FALSE, panic |-> FALSE]

----------------------------------------------------------------------------
(* technique.rs: the techniques.  A step yields the grid it leaves, its     *)
(* SolveStepResult (step, with failed the SResult a Failed carries) and the  *)
(* SResult of the set_cell / set_house call it made (setres).                *)

StepOut(g, step, failed, setres) ==
    [cells |-> g, step |-> step, failed |-> failed, setres |-> setres]

\* least pair of a set in the order two nested ascending loops visit them
First2(S) == CHOOSE x \in S : \A y \in S :
                 x[1] < y[1] \/ (x[1] = y[1] /\ x[2] <= y[2])

\* a Naked Single whose scan stops before the last row
NakedSingle_short(g) ==
    LET S == {i \in 0..71 : ~g[i].fixed /\ valuesLen(g[i]) = 1} IN
    IF S = {} THEN StepOut(g, "Stuck", NoResult, NoResult)
    ELSE LET i == Min(S)
             vs == valuesSet(g[i])
         IN IF vs = {} THEN StepOut(g, "Panic", NoResult, NoResult)
            ELSE LET r == set_cell(g, i \div 9, i % 9, Min(vs)) IN
                 IF r.res.kind \in {"Continue", "Finished"}
                 THEN StepOut(r.cells, "Acted", NoResult, r.res)
                 ELSE IF r.res.kind = "Panic"
                 THEN StepOut(r.cells, "Panic", NoResult, r.res)
                 ELSE StepOut(r.cells, "Failed", r.res, r.res)

NakedSingle_step(g) ==
    LET S == {i \in 0..80 : ~g[i].fixed /\ valuesLen(g[i]) = 1} IN
    IF S = {} THEN StepOut(g, "Stuck", NoResult, NoResult)
    ELSE LET i == Min(S)
             vs == valuesSet(g[i])
         IN IF vs = {} THEN StepOut(g, "Panic", NoResult, NoResult)
            ELSE LET r == set_cell(g, i \div 9, i % 9, Min(vs)) IN
                 IF r.res.kind \in {"Continue", "Finished"}
                 THEN StepOut(r.cells, "Acted", NoResult, r.res)
                 ELSE IF r.res.kind = "Panic"
                 THEN StepOut(r.cells, "Panic", NoResult, r.res)
                 ELSE StepOut(r.cells, "Failed", r.res, r.res)

\* the map `found` of HiddenSingle and HiddenPair at one value: the offsets
\* of the unfixed cells of the house that can take the value
found(content, value) ==
    {n \in 0..8 : ~content[n].fixed /\ value \in valuesSet(content[n])}

\* the values of the house that exactly one unfixed cell can take
HiddenSingle_values(content) ==
    {value \in 1..9 : Cardinality(found(content, value)) = 1}

\* the body of the loop of HiddenSingle at a house where a value is found
HiddenSingle_act(g, h, content, value) ==
    LET cell == CHOOSE n \in found(content, value) : TRUE
        r == set_house(g, h, cell, value)
    IN IF r.res.kind = "Panic" THEN StepOut(r.cells, "Panic", NoResult, r.res)
       ELSE StepOut(r.cells, "Acted", NoResult, r.res)

\* the loop of HiddenSingle over the houses, from house h on
RECURSIVE HiddenSingle_scan(_, _)
HiddenSingle_scan(g, h) ==
    IF h > 26 THEN StepOut(g, "Stuck", NoResult, NoResult)
    ELSE IF HiddenSingle_values(house(g, h)) = {} THEN HiddenSingle_scan(g, h + 1)
    ELSE HiddenSingle_act(g, h, house(g, h), Min(HiddenSingle_values(house(g, h))))

\* a Hidden Single whose scan finds no house
HiddenSingle_idle(g) == HiddenSingle_scan(g, 27)

HiddenSingle_step(g) == HiddenSingle_scan(g, 0)

\* the loop of NakedPair over the other cells of the house, from `other` on
RECURSIVE NakedPair_others(_, _, _, _, _, _, _)
NakedPair_others(g, h, a, b, pat, other, changed) ==
    IF other > 8 THEN [cells |-> g, changed |-> changed, panic |-> FALSE]
    ELSE IF other = a \/ other = b
    THEN NakedPair_others(g, h, a, b, pat, other + 1, changed)
    ELSE IF ~HouseCellOk(h, other)
    THEN [cells |-> g, changed |-> changed, panic |-> TRUE]
    ELSE LET r == remove_all(house_cell(g, h, other), pat) IN
         NakedPair_others([g EXCEPT ![HousePos(h, other)] = r.cell],
                          h, a, b, pat, other + 1, changed \/ r.changed)

\* the naked pairs (a, b) of a house on which the loop over the other cells
\* reports a change or panics
NakedPair_pairs(g, h, hcells) ==
    {ab \in {xy \in (0..7) \X (1..8) :
                /\ xy[1] < xy[2]
                /\ possibilities(hcells[xy[1]]) = 2
                /\ hcells[xy[1]] = hcells[xy[2]]} :
        \/ NakedPair_others(g, h, ab[1], ab[2], hcells[ab[1]], 0, FALSE).changed
        \/ NakedPair_others(g, h, ab[1], ab[2], hcells[ab[1]], 0, FALSE).panic}

\* the step result once the loop over the other cells changed a cell or
\* panicked
PairOut(o) ==
    IF o.panic THEN StepOut(o.cells, "Panic", NoResult, NoResult)
    ELSE StepOut(o.cells, "Acted", NoResult, NoResult)

\* the loop of NakedPair over the houses, from house h on
RECURSIVE NakedPair_scan(_, _)
NakedPair_scan(g, h) ==
    IF h > 26 THEN StepOut(g, "Stuck", NoResult, NoResult)
    ELSE IF \A n \in 0..7 : possibilities(house(g, h)[n]) # 2
    THEN NakedPair_scan(g, h + 1)
    ELSE LET S == NakedPair_pairs(g, h, house(g, h)) IN
         IF S = {} THEN NakedPair_scan(g, h + 1)
         ELSE PairOut(NakedPair_others(g, h, First2(S)[1], First2(S)[2],
                                       house(g, h)[First2(S)[1]], 0, FALSE))

NakedPair_step(g) == NakedPair_scan(g, 0)

\* two alter_house calls of which the second is skipped when the first
\* reports a change
HiddenPair_alter_either(g, h, content, cs, swap) ==
    LET lo == Min(cs)
        hi == CHOOSE n \in cs : n # lo
        c1 == IF swap THEN hi ELSE lo
        c2 == IF swap THEN lo ELSE hi
        ncell == intersect(content[c1], content[c2])
        r1 == alter_house(g, h, c1, ncell)
    IN IF r1.panic \/ r1.changed THEN r1 ELSE alter_house(r1.cells, h, c2, ncell)

\* the two alter_house calls of HiddenPair on the pair of cells cs, taken in
\* the order the HashSet iterates them (least first unless swap)
HiddenPair_alter(g, h, content, cs, swap) ==
    LET lo == Min(cs)
        hi == CHOOSE n \in cs : n # lo
        c1 == IF swap THEN hi ELSE lo
        c2 == IF swap THEN lo ELSE hi
        ncell == intersect(content[c1], content[c2])
        r1 == alter_house(g, h, c1, ncell)
        r2 == alter_house(r1.cells, h, c2, ncell)
    IN IF r1.panic THEN r1
       ELSE [cells |-> r2.cells, changed |-> r1.changed \/ r2.changed,
             panic |-> r2.panic]

\* the map `found` of a house, at the values 0..8 the loops of HiddenPair
\* look up
HiddenPair_found(content) == [value \in 0..8 |-> found(content, value)]

\* the value pairs (a, b) of a house whose two alter_house calls report a
\* change or panic
HiddenPair_pairs(g, h, content, fnd, swap) ==
    {ab \in {xy \in {a \in 0..7 : Cardinality(fnd[a]) = 2} \X (1..8) :
                /\ xy[1] < xy[2]
                /\ fnd[xy[1]] = fnd[xy[2]]} :
        \/ HiddenPair_alter(g, h, content, fnd[ab[1]], swap).changed
        \/ HiddenPair_alter(g, h, content, fnd[ab[1]], swap).panic}

\* the loop of HiddenPair over the houses, from house h on
RECURSIVE HiddenPair_scan(_, _, _)
HiddenPair_scan(g, h, swap) ==
    IF h > 26 THEN StepOut(g, "Stuck", NoResult, NoResult)
    ELSE LET S == HiddenPair_pairs(g, h, house(g, h),
                                   HiddenPair_found(house(g, h)), swap) IN
         IF S = {} THEN HiddenPair_scan(g, h + 1, swap)
         ELSE PairOut(HiddenPair_alter(g, h, house(g, h),
                          HiddenPair_found(house(g, h))[First2(S)[1]], swap))

HiddenPair_step(g, swap) == HiddenPair_scan(g, 0, swap)

\* the (row, col) tuples of the cells of house h that can take the value
\* (a Fixed cell counts: values() of Fixed(n) yields n)
capable(g, h, value) ==
    {house_cell_to_row_col(h, cell) :
        cell \in {n \in 0..8 : value \in valuesSet(house_cell(g, h, n))}}

\* reading the nine cells of house h through house_cell does not panic
HouseOk(h) == \A cell \in 0..8 : HouseCellOk(h, cell)

\* the cells of the overlapping house oh that Pointing calls remove on
Pointing_targets(g, h, value, oh) == capable(g, oh, value) \ capable(g, h, value)

\* what the scan of house h meets at (value, j-th overlapping house): a
\* panic while reading the overlapping house, or a remove that reports a
\* change
Pointing_event(g, h, vj) ==
    /\ Cardinality(capable(g, h, vj[1])) >= 2
    /\ LET oh == overlapping_houses(h)[vj[2]] IN
       \/ ~HouseOk(oh)
       \/ \E rc \in Pointing_targets(g, h, vj[1], oh) :
              remove(g[_pos(rc[1], rc[2])], vj[1]).ok

\* the loop of Pointing over the houses, from house h on
RECURSIVE Pointing_scan(_, _)
Pointing_scan(g, h) ==
    IF h > 26 THEN StepOut(g, "Stuck", NoResult, NoResult)
    ELSE IF ~HouseOk(h) THEN StepOut(g, "Panic", NoResult, NoResult)
    ELSE LET S == {vj \in (1..9) \X (1..Len(overlapping_houses(h))) :
                      Pointing_event(g, h, vj)}
         IN IF S = {} THEN Pointing_scan(g, h + 1)
            ELSE LET vj == First2(S)
                     oh == overlapping_houses(h)[vj[2]]
                 IN IF ~HouseOk(oh) THEN StepOut(g, "Panic", NoResult, NoResult)
                    ELSE LET T == {_pos(rc[1], rc[2]) :
                                     rc \in Pointing_targets(g, h, vj[1], oh)}
                         IN StepOut([i \in 0..80 |->
                                        IF i \in T THEN remove(g[i], vj[1]).cell
                                        ELSE g[i]],
                                    "Acted", NoResult, NoResult)

Pointing_step(g) == Pointing_scan(g, 0)

\* Technique::name of the five techniques, in the order of SolverSet::full
full == <<"naked single", "hidden single", "naked pair", "HiddenPair", "pointing">>

\* Technique::step, dispatched on the technique
step(name, g, swap) ==
    CASE name = "naked single"  -> NakedSingle_step(g)
      [] name = "hidden single" -> HiddenSingle_step(g)
      [] name = "naked pair"    -> NakedPair_step(g)
      [] name = "HiddenPair"    -> HiddenPair_step(g, swap)
      [] name = "pointing"      -> Pointing_step(g)

\* the scan solve_grid makes after a step: some cell has no value left
Broke(g) == \E i \in 0..80 : valuesLen(g[i]) = 0

\* what an iteration of solve_grid leaves: the grid, the SolverSet, whether
\* the loop was left and with what
IterOut(g2, cur2, acts2, defs2, ret, res, failed, setres, stepres) ==
    [cells |-> g2, tnum |-> cur2, actions |-> acts2, defers |-> defs2,
     ret |-> ret, res |-> res, failed |-> failed, setres |-> setres,
     stepres |-> stepres]

\* a match whose Acted arm leaves the cursor where it is
solve_match_stay(o, cur, acts, defs) ==
    IF o.step = "Stuck"
    THEN IterOut(o.cells, cur + 1, acts, [defs EXCEPT ![cur + 1] = @ + 1],
                 Broke(o.cells), "Stuck", NoResult, o.setres, o.step)
    ELSE IF o.step = "Acted"
    THEN IterOut(o.cells, cur, [acts EXCEPT ![cur + 1] = @ + 1], defs,
                 Broke(o.cells), IF Broke(o.cells) THEN "Stuck" ELSE "Acted",
                 NoResult, o.setres, o.step)
    ELSE IterOut(o.cells, cur, acts, defs, TRUE, o.step, o.failed, o.setres, o.step)

\* the match of solve_grid on the result o of the step, then its scan
solve_match(o, cur, acts, defs) ==
    IF o.step = "Stuck"
    THEN IterOut(o.cells, cur + 1, acts, [defs EXCEPT ![cur + 1] = @ + 1],
                 Broke(o.cells), "Stuck", NoResult, o.setres, o.step)
    ELSE IF o.step = "Acted"
    THEN IterOut(o.cells, 0, [acts EXCEPT ![cur + 1] = @ + 1], defs,
                 Broke(o.cells), IF Broke(o.cells) THEN "Stuck" ELSE "Acted",
                 NoResult, o.setres, o.step)
    ELSE IterOut(o.cells, cur, acts, defs, TRUE, o.step, o.failed, o.setres, o.step)

\* an iteration that gives up before the last technique of the list
solve_iter_early(g, ts, cur, acts, defs, swap) ==
    IF done(g) = Finished
    THEN IterOut(g, cur, acts, defs, TRUE, "Finished", NoResult, NoResult, "None")
    ELSE IF cur + 1 >= Len(ts)
    THEN IterOut(g, cur, acts, defs, TRUE, "Stuck", NoResult, NoResult, "None")
    ELSE solve_match(step(ts[cur + 1], g, swap), cur, acts, defs)

\* one iteration of the loop of solve_grid, from the loop head
solve_iter(g, ts, cur, acts, defs, swap) ==
    IF done(g) = Finished
    THEN IterOut(g, cur, acts, defs, TRUE, "Finished", NoResult, NoResult, "None")
    ELSE IF cur = Len(ts)
    THEN IterOut(g, cur, acts, defs, TRUE, "Stuck", NoResult, NoResult, "None")
    ELSE solve_match(step(ts[cur + 1], g, swap), cur, acts, defs)

----------------------------------------------------------------------------
(* main.rs: ingestion *)

\* `ch as u8` for the characters the filter of main lets through
Ascii(ch) ==
    CASE ch = " " -> 32 [] ch = "." -> 46
      [] ch = "1" -> 49 [] ch = "2" -> 50 [] ch = "3" -> 51
      [] ch = "4" -> 52 [] ch = "5" -> 53 [] ch = "6" -> 54
      [] ch = "7" -> 55 [] ch = "8" -> 56 [] ch = "9" -> 57

\* the inner loop of apply over the columns of one row, from column col on:
\* the grid it leaves, the SResult that ended it (Continue: none did) and
\* the index of the call that ended it
RECURSIVE apply_row(_, _, _, _)
apply_row(g, input, row, col) ==
    IF col > 8 THEN [cells |-> g, res |-> Continue, at |-> 81]
    ELSE LET ch == Ascii(input[(row * 9) + col + 1]) IN
         IF ch # 32 /\ ch # 46
         THEN LET r == set_cell(g, row, col, ch - 48) IN
              IF r.res = Continue THEN apply_row(r.cells, input, row, col + 1)
              ELSE [cells |-> r.cells, res |-> r.res, at |-> (row * 9) + col]
         ELSE apply_row(g, input, row, col + 1)

\* the outer loop of apply over the rows, from row on
RECURSIVE apply_from(_, _, _)
apply_from(g, input, row) ==
    IF row > 8 THEN [cells |-> g, res |-> Continue, at |-> 81]
    ELSE LET r == apply_row(g, input, row, 0) IN
         IF r.at # 81 THEN r ELSE apply_from(r.cells, input, row + 1)

apply(g, input) == apply_from(g, input, 0)

\* the characters the filter of main keeps: ". 123456789"
Recognised(c) == c \in {".", " ", "1", "2", "3", "4", "5", "6", "7", "8", "9"}

\* main: what the loop over the lines has done once the line k and those
\* after it are read, with gridlines accumulated so far and grids pushed:
\* the grids loaded, or the panic and the grid and SResult apply left
RECURSIVE load_from(_, _, _, _)
load_from(lines, k, gridlines, grids) ==
    IF k > Len(lines)
    THEN [grids |-> grids, panic |-> "", cells |-> NewGrid, res |-> Continue]
    ELSE IF Len(lines[k]) > 0 /\ lines[k][1] = "#"
    THEN load_from(lines, k + 1, gridlines, grids)
    ELSE LET acc == gridlines \o SelectSeq(lines[k], Recognised) IN
         IF Len(acc) = 81
         THEN LET r == apply(NewGrid, acc) IN
              IF r.res # Continue
              THEN [grids |-> grids, panic |-> "Could not build grid from input",
                    cells |-> r.cells, res |-> r.res]
              ELSE load_from(lines, k + 1, <<>>, Append(grids, r.cells))
         ELSE IF Len(acc) > 81
         THEN [grids |-> grids, panic |-> "got more than 81 chars in a grid",
               cells |-> NewGrid, res |-> Continue]
         ELSE load_from(lines, k + 1, acc, grids)

\* main: the grids the loop over the lines of the input loads
load(lines) == load_from(lines, 1, <<>>, <<>>)

----------------------------------------------------------------------------
(* grid.rs: Display *)

\* write!(f, "{}", v) for the values a cell can be Fixed to
DigitChar(v) == <<"1", "2", "3", "4", "5", "6", "7", "8", "9">>[v]

\* the character fmt writes for a cell
CellChar(c) == IF c.fixed THEN DigitChar(c.val) ELSE " "

\* the line fmt writes for a row, without its newline
fmt_row(g, row) ==
    LET ch(col) == CellChar(g[_pos(row, col)]) IN
    <<ch(0), ch(1), ch(2), "|", ch(3), ch(4), ch(5), "|", ch(6), ch(7), ch(8)>>

\* the line fmt writes after rows 2 and 5
Separator == <<"-", "-", "-", "+", "-", "-", "-", "+", "-", "-", "-">>

\* Display::fmt: the lines of the rendering
fmt(g) ==
    <<fmt_row(g, 0), fmt_row(g, 1), fmt_row(g, 2), Separator,
      fmt_row(g, 3), fmt_row(g, 4), fmt_row(g, 5), Separator,
      fmt_row(g, 6), fmt_row(g, 7), fmt_row(g, 8)>>

----------------------------------------------------------------------------
(* The inputs of the model *)

\* column 0 can take 1 only at row 8, while column 1 and box 6 cannot
PuzzleLoop ==
    <<" "," "," "," "," "," "," "," "," ">>
    \o <<" ","1"," "," "," "," "," "," "," ">>
    \o <<" "," "," "," "," "," "," "," "," ">>
    \o <<" "," "," "," "," "," "," "," "," ">>
    \o <<" "," ","1"," "," "," "," "," "," ">>
    \o <<" "," "," "," "," "," "," "," "," ">>
    \o <<"2"," "," "," "," "," "," "," "," ">>
    \o <<"3"," "," "," "," "," "," "," "," ">>
    \o <<" "," "," "," "," "," "," "," "," ">>

\* the values 1 and 2 of column 0 are confined to rows 0 and 1; column 1 holds a 1
PuzzlePair ==
    <<" "," "," "," "," "," "," "," "," ">>
    \o <<" "," "," "," "," "," "," "," "," ">>
    \o <<"3"," "," "," "," "," "," "," "," ">>
    \o <<"4"," "," "," "," "," "," "," "," ">>
    \o <<"5"," "," "," "," "," "," "," "," ">>
    \o <<"6","1"," "," "," "," "," "," "," ">>
    \o <<"7"," "," "," "," "," "," "," "," ">>
    \o <<"8"," "," "," "," "," "," "," "," ">>
    \o <<"9"," "," "," "," "," "," "," "," ">>

\* the digit 5 twice in row 0
PuzzleDup ==
    <<"5",".",".",".","5",".",".",".",".">>
    \o <<".",".",".",".",".",".",".",".",".">>
    \o <<".",".",".",".",".",".",".",".",".">>
    \o <<".",".",".",".",".",".",".",".",".">>
    \o <<".",".",".",".",".",".",".",".",".">>
    \o <<".",".",".",".",".",".",".",".",".">>
    \o <<".",".",".",".",".",".",".",".",".">>
    \o <<".",".",".",".",".",".",".",".",".">>
    \o <<".",".",".",".",".",".",".",".",".">>

\* the puzzle of the specification's Scenario B
PuzzleB ==
    <<"1"," ","7"," "," ","8"," "," "," ">>
    \o <<"3"," "," "," "," "," "," "," "," ">>
    \o <<"2"," "," ","3"," ","5"," ","1"," ">>
    \o <<" ","1","6","5","3"," "," "," ","8">>
    \o <<"5"," ","3"," "," "," ","6"," ","1">>
    \o <<"7"," "," "," ","1","9","3","5"," ">>
    \o <<" ","4"," ","2"," ","6"," "," ","5">>
    \o <<" "," "," "," "," "," "," "," ","7">>
    \o <<" "," "," ","8"," "," ","1"," ","6">>

\* the values 5 and 7 of column 8 are confined to rows 2 and 4
PuzzleWrap ==
    <<"8","1","4","7","3","5","9","2","6">>
    \o <<"3"," ","5","2","9","6","8","1","4">>
    \o <<"9","2"," ","1","8","4","3"," "," ">>
    \o <<" ","8","7","3","6","2","4","9","1">>
    \o <<" ","3","2","9","4","1"," ","8"," ">>
    \o <<"4","9","1","8","5","7","6","3","2">>
    \o <<"7","4","8","5","2","3","1","6","9">>
    \o <<"1","6","9","4","7","8","2","5","3">>
    \o <<"2","5","3","6","1","9","7","4"," ">>

\* the puzzle of the specification's Scenario A
PuzzleA ==
    <<" "," "," ","2","6"," ","7"," ","1">>
    \o <<"6","8"," "," ","7"," "," ","9"," ">>
    \o <<"1","9"," "," "," ","4","5"," "," ">>
    \o <<"8","2"," ","1"," "," "," ","4"," ">>
    \o <<" "," ","4","6"," ","2","9"," "," ">>
    \o <<" ","5"," "," "," ","3"," ","2","8">>
    \o <<" "," ","9","3"," "," "," ","7","4">>
    \o <<" ","4"," "," ","5"," "," ","3","6">>
    \o <<"7"," ","3"," ","1","8"," "," "," ">>

\* the values 8 and 9 of row 0 are confined to columns 0 and 1; column 0
\* holds a 1
PuzzleNine ==
    <<" "," "," "," "," "," "," "," "," ">>
    \o <<" "," "," ","8"," "," ","9"," "," ">>
    \o <<" "," "," ","9"," "," ","8"," "," ">>
    \o <<" "," ","8"," "," "," "," "," "," ">>
    \o <<" "," ","9"," "," "," "," "," "," ">>
    \o <<"1"," "," "," "," "," "," "," "," ">>
    \o <<" "," "," "," "," "," "," "," "," ">>
    \o <<" "," "," "," "," "," "," "," "," ">>
    \o <<" "," "," "," "," "," "," "," "," ">>

\* the value 6 can go to (0,2) and (0,4) in row 0 and to (0,2) and (1,1) in
\* box 0
PuzzlePoint ==
    <<"4","8"," ","7"," ","5","3","2","9">>
    \o <<"7"," ","5","3"," ","9","4","8","1">>
    \o <<"3","2","9","4","8","1","7","6","5">>
    \o <<"8"," ","7","6","5","3","2","9","4">>
    \o <<"6","5","3","2","9","4","8","1"," ">>
    \o <<"2","9","4","8","1","7","6","5"," ">>
    \o <<"1","7"," ","5","3","2","9","4","8">>
    \o <<" ","3","2","9","4","8","1","7","6">>
    \o <<"9","4","8","1","7","6","5","3","2">>

\* the puzzles ingested
Puzzles ==
    <<PuzzleLoop, PuzzlePair, PuzzleDup, PuzzleB, PuzzleWrap, PuzzleA,
      PuzzleNine, PuzzlePoint>>

\* the cells and values of the direct set_cell calls
SetCoords == {<<0, 0>>, <<0, 1>>}
SetVals == {1, 2}

\* the (house, offset) pairs of the direct set_house calls
SetHouses == {<<9, 0>>, <<17, 8>>}

\* the technique lists a SolverSet is built with
TechLists ==
    {full,
     <<"naked single">>,
     <<"hidden single">>,
     <<"naked single", "hidden single">>,
     <<"HiddenPair", "hidden single">>}

----------------------------------------------------------------------------
(* The state machine *)

Op(op, tech, row, col, val, res, stepres, failed, setres, cur) ==
    [op |-> op, tech |-> tech, row |-> row, col |-> col, val |-> val,
     res |-> res, step |-> stepres, failed |-> failed, setres |-> setres,
     tnum |-> cur]

NoReturn == [step |-> "None", failed |-> NoResult]

Init ==
    /\ cells = NewGrid
    /\ before = NewGrid
    /\ lastOp = Op("new", "", 0, 0, 0, NoResult, "None", NoResult, NoResult, 0)
    /\ pc = "build"
    /\ techniques = <<>>
    /\ actions = <<>>
    /\ defers = <<>>
    /\ tnum = 0
    /\ result = NoReturn
    /\ start = NewGrid
    /\ built = TRUE
    /\ ops = 0

\* the state a call that returned r leaves
Returned(op, row, col, val, r) ==
    /\ cells' = r.cells
    /\ lastOp' = Op(op, "", row, col, val, r.res, "None", NoResult, NoResult, 0)
    /\ pc' = IF r.res = Panic THEN "panicked" ELSE "build"
    /\ before' = cells
    /\ ops' = ops + 1

\* the state apply leaves when it returned r on the k-th puzzle
Applied(k, r) == Returned("apply", r.at \div 9, r.at % 9, k, r)

\* the state a step that returned o leaves
Stepped(name, o) ==
    /\ cells' = o.cells
    /\ lastOp' = Op("step", name, 0, 0, 0, NoResult, o.step, o.failed, o.setres, 0)
    /\ pc' = IF o.step = "Panic" THEN "panicked" ELSE "build"
    /\ before' = cells
    /\ ops' = ops + 1

\* main: SGrid::new(Normal::new()) followed by apply on the 81 characters
Ingest(k) ==
    /\ pc = "build"
    /\ ops = 0
    /\ Applied(k, apply(cells, Puzzles[k]))
    /\ UNCHANGED <<techniques, actions, defers, tnum, result, start, built>>

\* a direct call of SGrid::set_cell
SetCell(row, col, val) ==
    /\ pc = "build"
    /\ ops < MaxOps
    /\ Returned("set_cell", row, col, val, set_cell(cells, row, col, val))
    /\ UNCHANGED <<techniques, actions, defers, tnum, result, start, built>>

\* a direct call of SGrid::set_house
SetHouse(h, cell, val) ==
    /\ pc = "build"
    /\ ops < MaxOps
    /\ Returned("set_house", h, cell, val, set_house(cells, h, cell, val))
    /\ UNCHANGED <<techniques, actions, defers, tnum, result, start, built>>

\* a direct call of Technique::step
TechniqueStep(name, swap) ==
    /\ pc = "build"
    /\ ops < MaxOps
    /\ Stepped(name, step(name, cells, swap))
    /\ built' = FALSE
    /\ UNCHANGED <<techniques, actions, defers, tnum, result, start>>

\* main / solve_grid: a SolverSet is built (new, add_technique) and its
\* solve_grid is entered on a grid that apply built
SolveStart(ts) ==
    /\ pc = "build"
    /\ lastOp.op = "apply"
    /\ lastOp.res = Continue
    /\ techniques' = ts
    /\ actions' = [i \in 1..Len(ts) |-> 0]
    /\ defers' = [i \in 1..Len(ts) |-> 0]
    /\ tnum' = 0
    /\ pc' = "solving"
    /\ start' = cells
    /\ before' = cells
    /\ lastOp' = Op("solve", "", 0, 0, 0, NoResult, "None", NoResult, NoResult, 0)
    /\ UNCHANGED <<cells, result, built, ops>>

\* the state an iteration o of the loop leaves
IterNext(o) ==
    /\ cells' = o.cells
    /\ tnum' = o.tnum
    /\ actions' = o.actions
    /\ defers' = o.defers
    /\ pc' = IF o.res = "Panic" THEN "panicked"
             ELSE IF o.ret THEN "returned" ELSE "solving"
    /\ result' = IF o.ret THEN [step |-> o.res, failed |-> o.failed] ELSE result
    /\ lastOp' = Op("iter",
                    IF o.stepres = "None" THEN "" ELSE techniques[tnum + 1],
                    0, 0, 0, NoResult, o.stepres, o.failed, o.setres, tnum)

\* one iteration of the loop of SolverSet::solve_grid
SolveIter(swap) ==
    /\ pc = "solving"
    /\ \A i \in 1..Len(techniques) : actions[i] < MaxCount /\ defers[i] < MaxCount
    /\ IterNext(solve_iter(cells, techniques, tnum, actions, defers, swap))
    /\ before' = cells
    /\ UNCHANGED <<techniques, start, built, ops>>

\* the state the re-ingestion of the rendered grid leaves, load having
\* returned r: the grid main pushed, or the grid apply left when main panicked
Reloaded(r) ==
    /\ cells' = IF r.panic = "" /\ Len(r.grids) > 0 THEN r.grids[1] ELSE r.cells
    /\ lastOp' = Op("reingest", "", 0, 0, Len(r.grids), r.res,
                    "None", NoResult, NoResult, 0)
    /\ pc' = IF r.panic = "" THEN "reloaded" ELSE "panicked"

\* the grid solve_grid returned is rendered (Display) and the text is given
\* to the ingestion loop of main
Reingest ==
    /\ pc = "returned"
    /\ Reloaded(load(fmt(cells)))
    /\ before' = cells
    /\ UNCHANGED <<techniques, actions, defers, tnum, result, start, built, ops>>

\* the grid under any sequence of direct calls
Next ==
    \/ \E k \in 1..Len(Puzzles) : Ingest(k)
    \/ \E rc \in SetCoords, v \in SetVals : SetCell(rc[1], rc[2], v)
    \/ \E hc \in SetHouses, v \in SetVals : SetHouse(hc[1], hc[2], v)
    \/ \E name \in {full[i] : i \in 1..Len(full)} :
           \E swap \in IF name = "HiddenPair" THEN BOOLEAN ELSE {FALSE} :
               TechniqueStep(name, swap)

Spec == Init /\ [][Next]_vars

\* a puzzle is ingested and solved
NextSolve ==
    \/ \E k \in 1..Len(Puzzles) : Ingest(k)
    \/ \E ts \in TechLists : SolveStart(ts)
    \/ \E swap \in BOOLEAN : SolveIter(swap)
    \/ Reingest

SpecSolve == Init /\ [][NextSolve]_vars

----------------------------------------------------------------------------
(* Vocabulary of the properties *)

RowOf(i) == i \div 9
ColOf(i) == i % 9

\* two distinct cells share a row, a column or a 3x3 box
SameUnit(i, j) ==
    /\ i # j
    /\ \/ RowOf(i) = RowOf(j)
       \/ ColOf(i) = ColOf(j)
       \/ RowOf(i) \div 3 = RowOf(j) \div 3 /\ ColOf(i) \div 3 = ColOf(j) \div 3

\* the 27 houses as sets of cell indices
Units ==
    {{i \in 0..80 : RowOf(i) = r} : r \in 0..8}
    \cup {{i \in 0..80 : ColOf(i) = c} : c \in 0..8}
    \cup {{i \in 0..80 : RowOf(i) \div 3 = b \div 3 /\ ColOf(i) \div 3 = b % 3} :
             b \in 0..8}

\* the indices of the cells the ruleset says cell p sees
SeenIdx(p) ==
    {_pos(NormalSees[p][k][1], NormalSees[p][k][2]) : k \in 1..Len(NormalSees[p])}

\* no two cells that see each other are Fixed to the same value
NoConflict(g) ==
    \A i, j \in 0..80 :
        SameUnit(i, j) /\ g[i].fixed /\ g[j].fixed => g[i].val # g[j].val

\* a cell only narrows from old to new
Narrowed(old, new) ==
    IF old.fixed THEN new = old
    ELSE IF new.fixed THEN new.val \in old.mask
    ELSE new.mask \subseteq old.mask

\* every cell is Fixed and every house holds each of 1..9 exactly once
Solved(g) ==
    /\ \A i \in 0..80 : g[i].fixed
    /\ \A U \in Units : {g[i].val : i \in U} = 1..9

\* the target of the last direct set_cell call
Target == _pos(lastOp.row, lastOp.col)

----------------------------------------------------------------------------
(* C1 .. C10 *)

\* C1: in every grid reachable by set_cell / set_house calls and technique
\* steps, no two cells that see each other are Fixed to the same value.
C1_NoConflict == NoConflict(cells)

\* C2: every operation only narrows every cell: a Possible cell keeps a
\* subset of its candidates or becomes Fixed to one of them, and a Fixed cell
\* stays as it is.
C2_OnlyNarrows == \A i \in 0..80 : Narrowed(before[i], cells[i])

\* C3: when solve_grid returns Finished, every cell is Fixed, each of the 27
\* houses holds every value exactly once, and every cell that was Fixed when
\* solve_grid was called still holds the value it had then.
C3_FinishedIsSolved ==
    (pc = "returned" /\ result.step = "Finished") =>
        /\ Solved(cells)
        /\ \A i \in 0..80 : start[i].fixed => cells[i] = start[i]

\* C4: set_cell(row, col, val) returns Conflict(row, col) and leaves all 81
\* cells unchanged whenever the target is Fixed to another value or is
\* Possible without val among its candidates.
C4_ConflictLeavesGrid ==
    (/\ lastOp.op = "set_cell"
     /\ \/ before[Target].fixed /\ before[Target].val # lastOp.val
        \/ ~before[Target].fixed /\ lastOp.val \notin before[Target].mask)
    => /\ lastOp.res = Conflict(lastOp.row, lastOp.col)
       /\ cells = before

\* a set_cell on a Possible cell that has lost the value was refused
C4_Witness ==
    /\ lastOp.op = "set_cell"
    /\ ~before[Target].fixed
    /\ lastOp.val \notin before[Target].mask
    /\ lastOp.res.kind = "Conflict"

\* C5: set_cell(row, col, val) on a Possible cell that has val as a candidate
\* leaves the target Fixed(val), leaves val a candidate of no seen cell,
\* takes no other value from a seen cell, leaves the Fixed seen cells as they
\* were and leaves every cell the target does not see unchanged.
C5_SetCellFrame ==
    (/\ lastOp.op = "set_cell"
     /\ ~before[Target].fixed
     /\ lastOp.val \in before[Target].mask)
    => /\ cells[Target] = Fixed(lastOp.val)
       /\ \A q \in SeenIdx(Target) :
             IF before[q].fixed THEN cells[q] = before[q]
             ELSE /\ ~cells[q].fixed
                  /\ cells[q].mask = before[q].mask \ {lastOp.val}
       /\ \A q \in (0..80) \ (SeenIdx(Target) \cup {Target}) :
             cells[q] = before[q]

\* a set_cell fixed a cell that saw a Fixed cell and a Possible cell that
\* had the value
C5_Witness ==
    /\ lastOp.op = "set_cell"
    /\ ~before[Target].fixed
    /\ lastOp.val \in before[Target].mask
    /\ \E q \in SeenIdx(Target) : before[q].fixed
    /\ \E q \in SeenIdx(Target) :
           ~before[q].fixed /\ lastOp.val \in before[q].mask

\* C6: set_cell returns Insoluable(r2, c2) whenever removing the assigned
\* value from a seen Possible cell (r2, c2) leaves that cell without a value.
C6_InsoluableReported ==
    (/\ lastOp.op = "set_cell"
     /\ ~before[Target].fixed
     /\ lastOp.val \in before[Target].mask
     /\ \E q \in SeenIdx(Target) :
            ~before[q].fixed /\ before[q].mask = {lastOp.val})
    => /\ lastOp.res.kind = "Insoluable"
       /\ LET q == _pos(lastOp.res.row, lastOp.res.col) IN
          q \in SeenIdx(Target) /\ before[q].mask = {lastOp.val}

\* C7: solve_grid terminates.  Its loop is a function of the grid and the
\* cursor alone, so it terminates only if no iteration that stays in the
\* loop leaves both as they were.
C7_Terminates ==
    (lastOp.op = "iter" /\ pc = "solving") =>
        ~(cells = before /\ tnum = lastOp.tnum)

\* C8: when the set_cell / set_house call of a Naked Single or Hidden Single
\* step returns Conflict or Insoluable, the step returns Failed with that
\* result and solve_grid returns the same Failed.
C8_ErrorsPropagate ==
    (/\ lastOp.op = "iter"
     /\ lastOp.tech \in {"naked single", "hidden single"}
     /\ lastOp.setres.kind \in {"Conflict", "Insoluable"})
    => /\ lastOp.step = "Failed"
       /\ lastOp.failed = lastOp.setres
       /\ pc = "returned"
       /\ result = [step |-> "Failed", failed |-> lastOp.setres]

\* C9: during solve_grid no set_cell / set_house call of a technique returns
\* Conflict.
C9_NoTechniqueConflict ==
    lastOp.op = "iter" => lastOp.setres.kind # "Conflict"

\* the digit of the i-th character of a puzzle (0 for a blank)
DigitAt(p, i) == IF Ascii(p[i + 1]) \in {32, 46} THEN 0 ELSE Ascii(p[i + 1]) - 48

\* the positions of a puzzle whose digit repeats an earlier digit of one of
\* their houses
Dups(p) ==
    {i \in 0..80 : /\ DigitAt(p, i) # 0
                   /\ \E j \in 0..(i - 1) :
                          SameUnit(i, j) /\ DigitAt(p, j) = DigitAt(p, i)}

\* C10: after set_cell calls only, a set_cell(r, c, v) on a cell that sees a
\* cell Fixed to v returns Conflict(r, c) and changes no cell; and the
\* ingestion of a puzzle with a digit twice in a house ends with Conflict at
\* the second of the two, the earlier digits placed and no later one.
C10_DuplicateRejected ==
    /\ (/\ built
        /\ lastOp.op = "set_cell"
        /\ \E q \in 0..80 : SameUnit(Target, q) /\ before[q] = Fixed(lastOp.val))
       => /\ lastOp.res = Conflict(lastOp.row, lastOp.col)
          /\ cells = before
    /\ (lastOp.op = "apply" /\ Dups(Puzzles[lastOp.val]) # {})
       => LET p == Puzzles[lastOp.val]
              d == Min(Dups(p))
          IN /\ lastOp.res = Conflict(RowOf(d), ColOf(d))
             /\ \A i \in 0..80 :
                    cells[i].fixed <=> (i < d /\ DigitAt(p, i) # 0)
             /\ \A i \in 0..(d - 1) :
                    DigitAt(p, i) # 0 => cells[i] = Fixed(DigitAt(p, i))

\* a set_cell on a cell that sees the value Fixed was refused
C10_Witness ==
    /\ built
    /\ lastOp.op = "set_cell"
    /\ \E q \in 0..80 : SameUnit(Target, q) /\ before[q] = Fixed(lastOp.val)
    /\ lastOp.res.kind = "Conflict"

\* C11: for every solved valid grid G, the rendering of G given to the
\* ingestion loop of main is accepted (apply reports Continue, main does not
\* panic) and the grid it builds equals G.
C11_RoundTrip ==
    (lastOp.op = "reingest" /\ Solved(before)) =>
        /\ pc = "reloaded"
        /\ lastOp.res = Continue
        /\ cells = before

\* two iterations of solve_grid have the same outcome: both panic, or they
\* leave the same grid, cursor and counters and return or continue alike
SameOutcome(a, b) ==
    IF a.res = "Panic" \/ b.res = "Panic" THEN a.res = b.res ELSE a = b

\* C12: the outcome of solve_grid is a function of the starting grid and the
\* technique list: whatever order the HashSet of Hidden Pair yields its two
\* cells in, every iteration of the loop leaves the same grid, cursor,
\* counters and result, so two runs from equal grids agree throughout.  (The
\* sets of Hidden Single hold one element and the removals of Pointing
\* commute, so neither has an order to choose.)
C12_OrderIndependent ==
    pc = "solving" =>
        SameOutcome(solve_iter(cells, techniques, tnum, actions, defers, FALSE),
                    solve_iter(cells, techniques, tnum, actions, defers, TRUE))

\* Hidden Pair has acted inside solve_grid
C12_Witness ==
    /\ lastOp.op = "iter"
    /\ lastOp.tech = "HiddenPair"
    /\ lastOp.step = "Acted"
    /\ cells # before

\* the coordinate of the cell that house(h) returns at index o
HouseCoord(h, o) ==
    IF h \in 0..8 THEN <<h, o>>
    ELSE IF h \in 9..17 THEN <<o, h - 9>>
    ELSE BOXES[h - 18][o + 1]

\* C13: house_cell_to_row_col(h, o) is the coordinate of the cell house(h)
\* returns at index o and lies inside the board, so a set_house(h, o, v) that
\* succeeds leaves house(h)[o] Fixed(v).
C13_HouseMapping ==
    lastOp.op = "set_house" =>
        LET rc == house_cell_to_row_col(lastOp.row, lastOp.col) IN
        /\ rc = HouseCoord(lastOp.row, lastOp.col)
        /\ rc[1] \in 0..8 /\ rc[2] \in 0..8
        /\ lastOp.res \in {Continue, Finished} =>
               house(cells, lastOp.row)[lastOp.col] = Fixed(lastOp.val)

\* the grids main builds from the puzzles of Scenario A and Scenario B
GridA == apply(NewGrid, PuzzleA).cells
GridB == apply(NewGrid, PuzzleB).cells

\* solve_grid is running or has returned, no counter has met its cap and no
\* index was out of bounds: the run is not cut short
Running ==
    /\ lastOp.op \in {"solve", "iter"}
    /\ pc \in {"solving", "returned"}
    /\ \A i \in 1..Len(techniques) :
           actions[i] < MaxCount /\ defers[i] < MaxCount

\* C14: on the Scenario B puzzle solve_grid with Naked Single alone returns
\* Stuck, and with Naked Single followed by Hidden Single returns Finished.
\* (Every iteration that stays in the loop raises a counter, so a run whose
\* counters stay below the cap returns.)
C14_ScenarioB ==
    (start = GridB /\ lastOp.op \in {"solve", "iter"}) =>
        /\ techniques = <<"naked single">> =>
               Running /\ (pc = "returned" => result.step = "Stuck")
        /\ techniques = <<"naked single", "hidden single">> =>
               Running /\ (pc = "returned" => result.step = "Finished")

\* solve_grid returned Finished on Scenario B with both techniques
C14_Witness ==
    /\ start = GridB
    /\ techniques = <<"naked single", "hidden single">>
    /\ lastOp.op = "iter"
    /\ pc = "returned"
    /\ result.step = "Finished"

\* C15: the ingestion of the Scenario A puzzle succeeds, and solve_grid with
\* Naked Single alone then returns Finished with every cell Fixed.
C15_ScenarioA ==
    /\ (lastOp.op = "apply" /\ Puzzles[lastOp.val] = PuzzleA) =>
           lastOp.res = Continue /\ cells = GridA
    /\ (/\ start = GridA
        /\ lastOp.op \in {"solve", "iter"}
        /\ techniques = <<"naked single">>)
       => /\ Running
          /\ pc = "returned" =>
                 result.step = "Finished" /\ \A i \in 0..80 : cells[i].fixed

\* solve_grid returned Finished on Scenario A with Naked Single alone
C15_Witness ==
    /\ start = GridA
    /\ techniques = <<"naked single">>
    /\ lastOp.op = "iter"
    /\ pc = "returned"
    /\ result.step = "Finished"

\* the set of cells each cell sees, by index
SeenSets == [p \in 0..80 |-> SeenIdx(p)]

\* C16: for every cell, sees lists 20 cells of the board without repeating
\* one; they are exactly the other cells of its row, its column and its box,
\* never the cell itself; and a cell is seen by each cell it sees.
C16_SeesExact ==
    \A p \in DOMAIN cells :
        LET s == sees(RowOf(p), ColOf(p)) IN
        /\ Len(s) = 20
        /\ \A k \in 1..Len(s) : s[k][1] \in 0..8 /\ s[k][2] \in 0..8
        /\ Cardinality(SeenSets[p]) = 20
        /\ p \notin SeenSets[p]
        /\ SeenSets[p] = {q \in 0..80 : SameUnit(p, q)}
        /\ \A q \in SeenSets[p] : p \in SeenSets[q]

\* a set_cell has consulted sees and taken the value from a seen cell
C16_Witness ==
    /\ lastOp.op = "set_cell"
    /\ lastOp.res = Continue
    /\ \E q \in SeenIdx(Target) : cells[q] # before[q]

\* the technique of the list at index j (from 1) returns Stuck on the grid
StuckOn(j, g) ==
    \A swap \in BOOLEAN : step(techniques[j], g, swap).step = "Stuck"

\* what an iteration of the loop of solve_grid does to the cursor and the
\* counters, by the result of the technique it invoked
IterEffect ==
    /\ lastOp'.step = "Stuck" =>
           /\ defers' = [defers EXCEPT ![tnum + 1] = @ + 1]
           /\ actions' = actions
           /\ tnum' = tnum + 1
    /\ lastOp'.step = "Acted" =>
           /\ actions' = [actions EXCEPT ![tnum + 1] = @ + 1]
           /\ defers' = defers
           /\ tnum' = 0
    /\ lastOp'.step \notin {"Stuck", "Acted"} =>
           actions' = actions /\ defers' = defers
    /\ lastOp'.step # "None" =>
           /\ lastOp'.tech = techniques[tnum + 1]
           /\ \A j \in 1..tnum : StuckOn(j, cells)

\* C17: in solve_grid a Stuck result raises only the defer counter of the
\* invoked technique, by one, and advances the cursor by one; an Acted result
\* raises only its action counter, by one, and resets the cursor to 0; no
\* other counter changes; and the technique at the cursor is invoked only
\* when every technique before it returns Stuck on the grid it is given.
C17_Counters == [][(pc = "solving" /\ lastOp'.op = "iter") => IterEffect]_vars

\* a technique that is not the first of the list acted and the cursor is
\* back at 0
C17_Witness ==
    /\ lastOp.op = "iter"
    /\ lastOp.step = "Acted"
    /\ lastOp.tnum > 0
    /\ tnum = 0
    /\ pc = "solving"

\* C18: when solve_grid returns Stuck and no cell of the grid is without a
\* value, the cursor has passed the last technique and the step of every
\* registered technique returns Stuck on that grid.
C18_StuckIsStuck ==
    (/\ pc = "returned"
     /\ lastOp.op = "iter"
     /\ result.step = "Stuck"
     /\ ~Broke(cells))
    => /\ tnum = Len(techniques)
       /\ \A j \in 1..Len(techniques) : StuckOn(j, cells)

\* solve_grid returned Stuck on a grid whose cells all have a value left
C18_Witness ==
    /\ pc = "returned"
    /\ lastOp.op = "iter"
    /\ result.step = "Stuck"
    /\ ~Broke(cells)
    /\ \E i \in 0..80 : ~cells[i].fixed

\* C19: a step of a technique that returns Acted leaves a grid that differs
\* from the one it was given, and a step that returns Stuck leaves the grid
\* as it was.
C19_ResultReflectsGrid ==
    lastOp.op = "step" =>
        /\ lastOp.step = "Acted" => cells # before
        /\ lastOp.step = "Stuck" => cells = before

\* the first house, in the order Hidden Single scans them, in which some
\* value has exactly one unfixed cell left
HiddenHouse(g) ==
    Min({h \in 0..26 : HiddenSingle_values(house(g, h)) # {}})

\* C20: when Hidden Single acts on house h for value v, the one cell of
\* house h that had v as a candidate is Fixed(v) afterwards, and no cell
\* changes but that cell and the cells it sees.
C20_HiddenSingleTarget ==
    (/\ lastOp.op = "step"
     /\ lastOp.tech = "hidden single"
     /\ lastOp.step = "Acted")
    => LET h == HiddenHouse(before)
           v == Min(HiddenSingle_values(house(before, h)))
           o == CHOOSE n \in found(house(before, h), v) : TRUE
           p == _pos(HouseCoord(h, o)[1], HouseCoord(h, o)[2])
       IN /\ cells[p] = Fixed(v)
          /\ \A q \in (0..80) \ (SeenIdx(p) \cup {p}) : cells[q] = before[q]

----------------------------------------------------------------------------
(* C21 .. C26 *)

\* the cell indices of house h
UnitOf(h) == {_pos(HouseCoord(h, o)[1], HouseCoord(h, o)[2]) : o \in 0..8}

\* C21: when Naked Pair acts on a house h whose cells at offsets a < b are
\* both Possible with the same two candidates {x, y}, then afterwards no
\* other cell of house h has x or y as a candidate, the two pair cells are
\* unchanged, and no cell outside house h is modified.
C21_NakedPairFrame ==
    (/\ lastOp.op = "step"
     /\ lastOp.tech = "naked pair"
     /\ lastOp.step = "Acted")
    => \E h \in 0..26 : \E a \in 0..7 : \E b \in (a + 1)..8 :
          LET pa == _pos(HouseCoord(h, a)[1], HouseCoord(h, a)[2])
              pb == _pos(HouseCoord(h, b)[1], HouseCoord(h, b)[2])
          IN /\ possibilities(before[pa]) = 2
             /\ before[pa] = before[pb]
             /\ cells[pa] = before[pa]
             /\ cells[pb] = before[pb]
             /\ \A q \in UnitOf(h) \ {pa, pb} :
                    valuesSet(cells[q]) \cap before[pa].mask = {}
             /\ \A q \in (0..80) \ UnitOf(h) : cells[q] = before[q]

\* C22: when Hidden Pair acts on values a < b that are confined to the same
\* two cells c1, c2 of a house, then afterwards c1 and c2 are both Possible
\* with exactly the candidates {a, b}, and no other cell is modified.
C22_HiddenPairResult ==
    (/\ lastOp.op = "step"
     /\ lastOp.tech = "HiddenPair"
     /\ lastOp.step = "Acted")
    => \E h \in 0..26 : \E a \in 1..8 : \E b \in (a + 1)..9 :
          LET fa == found(house(before, h), a)
              ps == {_pos(HouseCoord(h, o)[1], HouseCoord(h, o)[2]) : o \in fa}
          IN /\ Cardinality(fa) = 2
             /\ found(house(before, h), b) = fa
             /\ \A q \in ps : cells[q] = Possible({a, b})
             /\ \A q \in (0..80) \ ps : cells[q] = before[q]

\* C23: Hidden Pair examines every pair of values a < b of 1..9: whenever
\* some house has two values, the value 9 included, that exactly the same
\* two Possible cells can hold, and one of those cells has a further
\* candidate, the Hidden Pair step returns Acted rather than Stuck.
C23_HiddenPairAllValues ==
    (/\ lastOp.op = "step"
     /\ lastOp.tech = "HiddenPair"
     /\ \E h \in 0..26 : \E a \in 1..8 : \E b \in (a + 1)..9 :
           LET fa == found(house(before, h), a) IN
           /\ Cardinality(fa) = 2
           /\ found(house(before, h), b) = fa
           /\ \E o \in fa : house(before, h)[o].mask # {a, b})
    => lastOp.step # "Stuck"

\* the cells the last step changed
Changed == {q \in 0..80 : cells[q] # before[q]}

\* cell c is Possible with value v among its candidates
CanHold(c, v) == ~c.fixed /\ v \in c.mask

\* every cell the last step changed lies in the set U and lost exactly the
\* candidate v
RemovedFrom(U, v) ==
    /\ Changed \subseteq U
    /\ \A q \in Changed :
          /\ CanHold(before[q], v)
          /\ cells[q] = Possible(before[q].mask \ {v})

\* C24: Pointing removes a value v from a cell of an overlapping house O on
\* behalf of an origin house H only when every cell of H that can hold v
\* also lies in O; if some cell of H that can hold v lies outside O, the
\* step removes nothing from O for that (H, v, O).
C24_PointingConfined ==
    (/\ lastOp.op = "step"
     /\ lastOp.tech = "pointing"
     /\ lastOp.step = "Acted")
    => \E H \in 0..26 : \E O \in (0..26) \ {H} : \E v \in 1..9 :
          /\ RemovedFrom(UnitOf(O) \ UnitOf(H), v)
          /\ \A q \in UnitOf(H) : CanHold(before[q], v) => q \in UnitOf(O)

\* C25: Pointing performs no elimination in an overlapping house in which
\* fewer than 3 cells can hold the value: such an overlapping house is
\* skipped.
C25_PointingThreshold ==
    (/\ lastOp.op = "step"
     /\ lastOp.tech = "pointing"
     /\ lastOp.step = "Acted")
    => \E O \in 0..26 : \E v \in 1..9 :
          /\ RemovedFrom(UnitOf(O), v)
          /\ Cardinality({q \in UnitOf(O) : has(before[q], v)}) >= 3

\* the solution of PuzzlePoint
SolutionPoint ==
    LET digits ==
            <<4,8,1,7,6,5,3,2,9>>
            \o <<7,6,5,3,2,9,4,8,1>>
            \o <<3,2,9,4,8,1,7,6,5>>
            \o <<8,1,7,6,5,3,2,9,4>>
            \o <<6,5,3,2,9,4,8,1,7>>
            \o <<2,9,4,8,1,7,6,5,3>>
            \o <<1,7,6,5,3,2,9,4,8>>
            \o <<5,3,2,9,4,8,1,7,6>>
            \o <<9,4,8,1,7,6,5,3,2>>
    IN [i \in 0..80 |-> Fixed(digits[i + 1])]

\* the complete grids the steps are measured against
Solutions == {SolutionPoint}

\* grid g is consistent with the complete grid S: each Fixed cell equals S
\* there and each Possible cell has S's value among its candidates
Consistent(g, S) ==
    \A i \in 0..80 :
        IF g[i].fixed THEN g[i] = S[i] ELSE S[i].val \in g[i].mask

\* C26: every technique step is a sound deduction: if the grid before the
\* step is consistent with a complete valid solution S, the grid after a
\* step of Naked Single, Hidden Single, Naked Pair, Hidden Pair or Pointing
\* is still consistent with S.
C26_StepsSound ==
    lastOp.op = "step" =>
        \A S \in Solutions :
            Solved(S) /\ Consistent(before, S) => Consistent(cells, S)

====
